---- MODULE Spec2Model ----
(***************************************************************************)
(* DashboardCard (src/covalent_ui/webapp/src/components/qelectron/         *)
(* Circuit.js, lines 229-368): the dashboard summary card.  The component  *)
(* reads four values of the redux store through useSelector, re-fetches    *)
(* the overview in an effect keyed on [isDeleted, callSocketApi], opens a  *)
(* Snackbar in an effect keyed on [isError], and renders four metrics      *)
(* through DashBoardCardItems.                                             *)
(*                                                                         *)
(* JavaScript values are tagged records, so that undefined, null, 0 and    *)
(* strings stay distinct and truthiness is computed as JavaScript does.    *)
(* Time is counted in milliseconds since the Snackbar timer was started.   *)
(***************************************************************************)
EXTENDS Integers, Sequences, FiniteSets, TLC

VARIABLES
    phase,              \* "unmounted", "mounted" or "crashed" (render threw)
    dispatchesDeleted,  \* store: state.dashboard.dispatchesDeleted
    callSocketApi,      \* store: state.common.callSocketApi
    error,              \* store: state.dashboard.fetchDashboardOverview.error
    dashboardOverview,  \* store: state.dashboard.dashboardOverview
    openSnackbar,       \* useState(Boolean(isError))
    timers,             \* pending auto-hide timers of the Snackbar (elapsed ms)
    view,               \* what the last render returned for the four metrics
    fetchCount,         \* number of dispatch(fetchDashboardOverview()) calls
    renders,            \* history: re-renders after mount
    transitions,        \* history: value changes of the two signals, per signal
    observedChanges,    \* history: re-renders at which the signal pair differed
    errorObserved,      \* history: some committed render saw a truthy isError
    shownFor,           \* history: while open, ms since it went Hidden -> Visible
    sinceEdge,          \* history: while open, ms since the error effect last ran setOpenSnackbar(true)
    lastClose,          \* history: how it was last closed: "none", "dismiss", "timeout"
    openModal,          \* Circuit: useState(false)
    circuitDetails,     \* Circuit: the circuitDetails prop
    qelectronJobOverviewIsFetching, \* store: qelectronJobOverviewList.isFetching
    circuitView,        \* Circuit: what the last render returned for the four SingleGrids
    closeCalls          \* history: calls of handleClose

vars == <<phase, dispatchesDeleted, callSocketApi, error, dashboardOverview,
          openSnackbar, timers, view, fetchCount, renders, transitions,
          observedChanges, errorObserved, shownFor, sinceEdge, lastClose,
          openModal, circuitDetails, qelectronJobOverviewIsFetching,
          circuitView, closeCalls>>

circuit == <<openModal, circuitDetails, qelectronJobOverviewIsFetching,
             circuitView, closeCalls>>

dashboard == <<phase, dispatchesDeleted, callSocketApi, error,
               dashboardOverview, openSnackbar, timers, view, fetchCount,
               renders, transitions, observedChanges, errorObserved, shownFor,
               sinceEdge, lastClose>>

store == <<dispatchesDeleted, callSocketApi, error, dashboardOverview>>

history == <<renders, transitions, observedChanges, errorObserved, shownFor,
             sinceEdge, lastClose>>

----------------------------------------------------------------------------
(* Bounds *)

MaxRenders == 3

MaxCount == 1

MaxCloses == 2

(* autoHideDuration={3000} *)
AutoHideDuration == 3000

----------------------------------------------------------------------------
(* JavaScript values *)

Undefined == [t |-> "undefined"]

Null == [t |-> "null"]

Num(n) == [t |-> "number", n |-> n]

Str(s) == [t |-> "string", s |-> s]

Stats(running, completed, status, duration) ==
    [t |-> "object",
     total_jobs_running |-> running,
     total_jobs_completed |-> completed,
     latest_running_task_status |-> status,
     total_dispatcher_duration |-> duration]

(* ToBoolean: undefined, null, 0 and "" are falsy, every object is truthy *)
Truthy(v) ==
    CASE v.t = "undefined" -> FALSE
      [] v.t = "null"      -> FALSE
      [] v.t = "number"    -> v.n # 0
      [] v.t = "string"    -> v.s # ""
      [] OTHER             -> TRUE

Signals == BOOLEAN

ErrorValues == {Undefined, Null, Str("e1"), Str("e2")}

CountValues == {Undefined} \cup {Num(n) : n \in 0..MaxCount}

StatsValues ==
    {Undefined, Null} \cup
    {Stats(r, c, sd[1], sd[2]) :
        r \in CountValues, c \in CountValues,
        sd \in {<<Null, Null>>, <<Str("RUNNING"), Num(65)>>, <<Undefined, Num(0)>>}}

(* the overview values the store takes while the notifier is exercised *)
StoreStats ==
    {Undefined,
     Stats(Num(0), Num(0), Null, Null),
     Stats(Num(MaxCount), Num(0), Str("RUNNING"), Num(65))}

----------------------------------------------------------------------------
(* Rendering: DashboardCard's JSX (lines 292-326) and DashBoardCardItems *)

Skeleton == [node |-> "Skeleton"]

Text(s) == [node |-> "text", text |-> s]

Empty == [node |-> "empty"]

TypeError == [node |-> "TypeError"]

(* React renders a number child as its decimal text and a string child as  *)
(* itself; undefined and null children render nothing.                     *)
ReactChild(v) ==
    CASE v.t = "number" -> Text(ToString(v.n))
      [] v.t = "string" -> Text(v.s)
      [] OTHER          -> Empty

(* utils/misc statusLabel: a status code's display label, or a falsy value *)
(* for an absent code, which the caller replaces by 'N/A'.                 *)
statusLabel(status) ==
    IF status = Str("RUNNING") THEN Str("Running") ELSE status

(* utils/misc secondsToHms: a duration as display text *)
secondsToHms(duration) ==
    Str(ToString(duration.n \div 60) \o "m " \o ToString(duration.n % 60) \o "s")

(* a || b *)
Or(a, b) == IF Truthy(a) THEN a ELSE b

(* variant: the zero test 'content === 0' is left out *)
DashBoardCardItems_NoZero(content, isSkeletonPresent) ==
    IF isSkeletonPresent THEN Skeleton
    ELSE IF Truthy(content) THEN ReactChild(content)
    ELSE Text("N/A")

(* variant: an undefined content shows the placeholder *)
DashBoardCardItems_SkeletonIfUndefined(content, isSkeletonPresent) ==
    IF isSkeletonPresent \/ content = Undefined THEN Skeleton
    ELSE IF Truthy(content) \/ content = Num(0) THEN ReactChild(content)
    ELSE Text("N/A")

(* isSkeletonPresent ? <Skeleton/> : content || content === 0 ? content : 'N/A' *)
DashBoardCardItems(content, isSkeletonPresent) ==
    IF isSkeletonPresent THEN Skeleton
    ELSE IF Truthy(content) \/ content = Num(0) THEN ReactChild(content)
    ELSE Text("N/A")

Absent(stats) == stats.t \in {"undefined", "null"}

(* dashboardStats.total_jobs_running (line 294) has no optional chaining:  *)
(* reading a property of undefined or null throws a TypeError.             *)
RenderThrows(stats) == Absent(stats)

(* the four metrics, in order: running, completed, latest status, duration *)
DashboardCardView(stats) ==
    IF RenderThrows(stats) THEN TypeError
    ELSE
      LET isSkeletonPresent == ~Truthy(stats) IN
      << DashBoardCardItems(stats.total_jobs_running, isSkeletonPresent),
         DashBoardCardItems(stats.total_jobs_completed, isSkeletonPresent),
         DashBoardCardItems(
             Or(statusLabel(stats.latest_running_task_status), Str("N/A")),
             isSkeletonPresent),
         DashBoardCardItems(
             IF Truthy(stats.total_dispatcher_duration)
               THEN secondsToHms(stats.total_dispatcher_duration)
               ELSE Str("N/A"),
             isSkeletonPresent) >>

----------------------------------------------------------------------------
(* Circuit (lines 45-195) *)

CircuitDetails(qbits, gates1, gates2, depth) ==
    [t |-> "object", total_qbits |-> qbits, qbit1_gates |-> gates1,
     qbit2_gates |-> gates2, depth |-> depth]

CircuitDetailsValues ==
    {Undefined} \cup
    {CircuitDetails(q, g1, g2, dp) :
        q \in CountValues, g1 \in CountValues, g2 \in CountValues,
        dp \in CountValues}

(* circuitDetails?.field *)
OptionalField(details, field) ==
    IF Absent(details) THEN Undefined ELSE details[field]

(* isFetching && !value ? <Skeleton/> : value ? value : '-' *)
SingleGrid(value, isFetching) ==
    IF isFetching /\ ~Truthy(value) THEN Skeleton
    ELSE IF Truthy(value) THEN ReactChild(value)
    ELSE Text("-")

(* the four SingleGrids of the top grid, in order *)
CircuitView(details, isFetching) ==
    << SingleGrid(OptionalField(details, "total_qbits"), isFetching),
       SingleGrid(OptionalField(details, "qbit1_gates"), isFetching),
       SingleGrid(OptionalField(details, "qbit2_gates"), isFetching),
       SingleGrid(OptionalField(details, "depth"), isFetching) >>

(* variant: the modal starts open *)
InitialOpenModal_True == TRUE

(* useState(false) *)
InitialOpenModal == FALSE

(* variant: the handler toggles, setOpenModal(!openModal) *)
HandleCloseSets_Toggle(open) == ~open

(* const handleClose = () => { setOpenModal(false) } *)
HandleCloseSets(open) == FALSE

----------------------------------------------------------------------------
(* Hooks *)

(* the values the selectors returned at a render *)
Selected(d, s, e, st) ==
    [isDeleted |-> d, callSocketApi |-> s, isError |-> e, dashboardStats |-> st]

(* variant: the dependency array is [isDeleted] *)
FetchEffectRuns_DeletedOnly(prev, next) == prev.isDeleted # next.isDeleted

(* variant: the dependency array also holds isError *)
FetchEffectRuns_WithError(prev, next) ==
    \/ prev.isDeleted # next.isDeleted
    \/ prev.callSocketApi # next.callSocketApi
    \/ prev.isError # next.isError

(* useEffect(..., [isDeleted, callSocketApi]) after a re-render: the       *)
(* effect runs when a dependency differs from the previous render's        *)
FetchEffectRuns(prev, next) ==
    \/ prev.isDeleted # next.isDeleted
    \/ prev.callSocketApi # next.callSocketApi

(* variant: the effect has no dependency array and runs after every render *)
ErrorEffectRuns_EveryRender(prev, next) == TRUE

(* useEffect(..., [isError]) after a re-render *)
ErrorEffectRuns(prev, next) == prev.isError # next.isError

(* variant: the snackbar starts open *)
InitialOpenSnackbar_True(isError) == TRUE

(* useState(Boolean(isError)) *)
InitialOpenSnackbar(isError) == Truthy(isError)

(* variant: the effect follows the flag, setOpenSnackbar(Boolean(isError)) *)
ErrorEffect_Level(open, isError) == Truthy(isError)

(* if (isError) setOpenSnackbar(true) *)
ErrorEffect(open, isError) == IF Truthy(isError) THEN TRUE ELSE open

(* variant: the close handler leaves the state as it is *)
SnackbarOnClose_Keep(open) == open

(* onClose={() => setOpenSnackbar(false)}, and the close icon's onClick *)
SnackbarOnClose(open) == FALSE

(* <Snackbar open={openSnackbar} autoHideDuration={3000}>: the timer is    *)
(* started when open becomes true, dropped when open becomes false, and    *)
(* left alone by a render that does not change open.                       *)
SnackbarTimer(wasOpen, isOpen, pending) ==
    IF ~isOpen THEN {}
    ELSE IF ~wasOpen THEN {0}
    ELSE pending

----------------------------------------------------------------------------
(* The component *)

(* Circuit after its first render, with props from D and the flag from F *)
CircuitInit(D, F) ==
    /\ openModal = InitialOpenModal
    /\ circuitDetails \in D
    /\ qelectronJobOverviewIsFetching \in F
    /\ circuitView = CircuitView(circuitDetails, qelectronJobOverviewIsFetching)
    /\ closeCalls = 0

(* DashboardCard before its first render, with the overview drawn from S *)
DashboardInit(S) ==
    /\ phase = "unmounted"
    /\ dispatchesDeleted \in Signals
    /\ callSocketApi \in Signals
    /\ error \in ErrorValues
    /\ dashboardOverview \in S
    /\ openSnackbar = FALSE
    /\ timers = {}
    /\ view = Empty
    /\ fetchCount = 0
    /\ renders = 0
    /\ transitions = 0
    /\ observedChanges = 0
    /\ errorObserved = FALSE
    /\ shownFor = 0
    /\ sinceEdge = 0
    /\ lastClose = "none"

InitWith(S) ==
    /\ CircuitInit({Undefined}, {FALSE})
    /\ DashboardInit(S)

Init == InitWith(StoreStats)

(* First render and the effects after it.  Every effect runs after the     *)
(* first render; a render that throws commits nothing and runs no effect.  *)
Mount ==
    /\ phase = "unmounted"
    /\ UNCHANGED circuit
    /\ view' = DashboardCardView(dashboardOverview)
    /\ IF RenderThrows(dashboardOverview)
         THEN /\ phase' = "crashed"
              /\ UNCHANGED <<openSnackbar, timers, fetchCount, errorObserved>>
         ELSE /\ phase' = "mounted"
              /\ openSnackbar' = ErrorEffect(InitialOpenSnackbar(error), error)
              /\ timers' = SnackbarTimer(FALSE, openSnackbar', {})
              /\ fetchCount' = fetchCount + 1
              /\ errorObserved' = Truthy(error)
    /\ UNCHANGED <<store, renders, transitions, observedChanges, shownFor,
                   sinceEdge, lastClose>>

(* The store changes to (d, s, e, st), possibly to the same values, and    *)
(* the component re-renders and runs the effects whose dependencies        *)
(* changed.  A render that throws unmounts the component.                  *)
Commit(d, s, e, st) ==
    LET prev == Selected(dispatchesDeleted, callSocketApi, error, dashboardOverview)
        next == Selected(d, s, e, st)
    IN
    /\ phase = "mounted"
    /\ renders < MaxRenders
    /\ UNCHANGED circuit
    /\ dispatchesDeleted' = d
    /\ callSocketApi' = s
    /\ error' = e
    /\ dashboardOverview' = st
    /\ view' = DashboardCardView(st)
    /\ IF RenderThrows(st)
         THEN /\ phase' = "crashed"
              /\ timers' = {}
              /\ UNCHANGED <<openSnackbar, fetchCount, history>>
         ELSE /\ phase' = "mounted"
              /\ fetchCount' = IF FetchEffectRuns(prev, next)
                                 THEN fetchCount + 1 ELSE fetchCount
              /\ openSnackbar' = IF ErrorEffectRuns(prev, next)
                                   THEN ErrorEffect(openSnackbar, e)
                                   ELSE openSnackbar
              /\ timers' = SnackbarTimer(openSnackbar, openSnackbar', timers)
              /\ renders' = renders + 1
              /\ transitions' = transitions
                     + (IF d # dispatchesDeleted THEN 1 ELSE 0)
                     + (IF s # callSocketApi THEN 1 ELSE 0)
              /\ observedChanges' = observedChanges
                     + (IF <<d, s>> # <<dispatchesDeleted, callSocketApi>>
                          THEN 1 ELSE 0)
              /\ errorObserved' = (errorObserved \/ Truthy(e))
              /\ shownFor' = IF ~openSnackbar /\ openSnackbar' THEN 0 ELSE shownFor
              /\ sinceEdge' = IF e # error /\ Truthy(e) THEN 0 ELSE sinceEdge
              /\ UNCHANGED lastClose

Render ==
    \E d \in Signals, s \in Signals, e \in ErrorValues, st \in StoreStats :
        Commit(d, s, e, st)

(* New overview statistics arrive and nothing else changes *)
StatsRender ==
    \E st \in StatsValues :
        Commit(dispatchesDeleted, callSocketApi, error, st)

(* The user clicks the close icon, or the Snackbar reports a click-away *)
Dismiss ==
    /\ phase = "mounted"
    /\ openSnackbar
    /\ UNCHANGED circuit
    /\ openSnackbar' = SnackbarOnClose(openSnackbar)
    /\ timers' = SnackbarTimer(openSnackbar, openSnackbar', timers)
    /\ lastClose' = "dismiss"
    /\ shownFor' = IF openSnackbar' THEN shownFor ELSE 0
    /\ sinceEdge' = IF openSnackbar' THEN sinceEdge ELSE 0
    /\ UNCHANGED <<phase, store, view, fetchCount, renders, transitions,
                   observedChanges, errorObserved>>

(* Time passes; it cannot pass the deadline of a pending timer *)
Tick(ms) ==
    /\ phase = "mounted"
    /\ timers # {}
    /\ UNCHANGED circuit
    /\ \A t \in timers : t + ms <= AutoHideDuration
    /\ timers' = {t + ms : t \in timers}
    /\ shownFor' = IF openSnackbar THEN shownFor + ms ELSE shownFor
    /\ sinceEdge' = IF openSnackbar THEN sinceEdge + ms ELSE sinceEdge
    /\ UNCHANGED <<phase, store, openSnackbar, view, fetchCount, renders,
                   transitions, observedChanges, errorObserved, lastClose>>

Elapse == \E k \in 1..3 : Tick(k * (AutoHideDuration \div 3))

(* A pending timer reaches autoHideDuration and the Snackbar calls onClose *)
Timeout ==
    /\ phase = "mounted"
    /\ AutoHideDuration \in timers
    /\ UNCHANGED circuit
    /\ openSnackbar' = SnackbarOnClose(openSnackbar)
    /\ timers' = SnackbarTimer(openSnackbar, openSnackbar',
                               timers \ {AutoHideDuration})
    /\ lastClose' = "timeout"
    /\ shownFor' = IF openSnackbar' THEN shownFor ELSE 0
    /\ sinceEdge' = IF openSnackbar' THEN sinceEdge ELSE 0
    /\ UNCHANGED <<phase, store, view, fetchCount, renders, transitions,
                   observedChanges, errorObserved>>

Next == Mount \/ Render \/ Dismiss \/ Elapse \/ Timeout

Spec == Init /\ [][Next]_vars

(* The card alone: every overview value, mounted and re-rendered *)
InitView == InitWith(StatsValues) /\ error = Null

NextView == Mount \/ StatsRender

SpecView == InitView /\ [][NextView]_vars

Visible == phase = "mounted" /\ openSnackbar

(* The Circuit component alone *)
InitCircuit ==
    /\ CircuitInit(CircuitDetailsValues, BOOLEAN)
    /\ DashboardInit({Undefined})
    /\ dispatchesDeleted = FALSE
    /\ callSocketApi = FALSE
    /\ error = Null

(* The parent passes new circuitDetails, or the store's isFetching flag    *)
(* changes, and Circuit re-renders; no render writes openModal.            *)
CircuitRender ==
    \E details \in CircuitDetailsValues, isFetching \in BOOLEAN :
        /\ circuitDetails' = details
        /\ qelectronJobOverviewIsFetching' = isFetching
        /\ circuitView' = CircuitView(details, isFetching)
        /\ UNCHANGED <<openModal, closeCalls, dashboard>>

(* handleClose, the Modal's onClose and the close icon's onClick.  The     *)
(* handler has no condition of its own, so it is taken to be callable in   *)
(* every state.                                                            *)
handleClose ==
    /\ closeCalls < MaxCloses
    /\ openModal' = HandleCloseSets(openModal)
    /\ closeCalls' = closeCalls + 1
    /\ UNCHANGED <<circuitDetails, qelectronJobOverviewIsFetching,
                   circuitView, dashboard>>

NextCircuit == CircuitRender \/ handleClose

SpecCircuit == InitCircuit /\ [][NextCircuit]_vars

TypeOK ==
    /\ phase \in {"unmounted", "mounted", "crashed"}
    /\ openSnackbar \in BOOLEAN
    /\ fetchCount \in 0..(MaxRenders + 1)

----------------------------------------------------------------------------
(* Properties *)

(* C1, as stated: the number of fetchDashboardOverview dispatches of a     *)
(* mounted card is 1 plus the number of value changes of callSocketApi and *)
(* dispatchesDeleted, each signal's change counted on its own.             *)
C1_FetchPerSignalChange ==
    phase = "mounted" => fetchCount = 1 + transitions

(* C1, amended: the number of fetchDashboardOverview dispatches of a       *)
(* mounted card is 1 (the fetch on mount) plus the number of re-renders at *)
(* which callSocketApi or dispatchesDeleted differs from the previous      *)
(* render; both signals changing in one render cause one fetch.            *)
C1_FetchPerChangedRender ==
    phase = "mounted" => fetchCount = 1 + observedChanges

(* both signals changed in one render, and a fetch was issued for it *)
C1_BothChangedAtOnce ==
    /\ phase = "mounted"
    /\ observedChanges >= 1
    /\ transitions > observedChanges

(* C2, as stated: the notification goes from Hidden to Visible exactly at  *)
(* a change of isError from falsy to truthy; a truthy value following a    *)
(* truthy value never re-opens it.                                         *)
C2_OpensOnFalsyToTruthy ==
    [][(phase = "mounted" /\ phase' = "mounted")
         => ((~openSnackbar /\ openSnackbar')
               <=> (~openSnackbar /\ ~Truthy(error) /\ Truthy(error')))]_vars

(* C2, amended: the notification goes from Hidden to Visible exactly at a  *)
(* re-render at which isError differs from the previous render's value and *)
(* is truthy, be the previous value falsy or another truthy value; a       *)
(* re-render with the same isError never re-opens it.                      *)
C2_OpensOnChangedTruthy ==
    [][(phase = "mounted" /\ phase' = "mounted")
         => ((~openSnackbar /\ openSnackbar')
               <=> (~openSnackbar /\ error' # error /\ Truthy(error')))]_vars

(* the notification was dismissed and a later render opened it again *)
C2_ReopenedAfterDismissal ==
    /\ Visible
    /\ lastClose = "dismiss"
    /\ renders >= 1
    /\ shownFor = 0

(* C3: openSnackbar is true only if some render, the first one included,   *)
(* saw a truthy error flag; right after mount it is true exactly if the    *)
(* flag is truthy.                                                         *)
C3_VisibleOnlyAfterError ==
    /\ Visible => errorObserved
    /\ (phase = "mounted" /\ renders = 0 /\ lastClose = "none")
          => (openSnackbar <=> Truthy(error))

(* the card mounted with a truthy error flag and shows the notification *)
C3_VisibleAtMount ==
    /\ Visible
    /\ renders = 0
    /\ lastClose = "none"
    /\ Truthy(error)

(* C4: the auto-hide timer never closes the notification before 3000 ms    *)
(* have passed since the newest error edge that set it Visible.            *)
C4_TimeoutNotBeforeNewestEdge ==
    [][Timeout => sinceEdge >= AutoHideDuration]_vars

(* C5: a dismissal and the timeout both leave the notification Hidden with *)
(* no timer pending; the timeout closes it exactly 3000 ms after it became *)
(* Visible, is due whenever it has been Visible for 3000 ms, and no timer  *)
(* is pending while it is Hidden.                                          *)
C5_HiddenOnDismissOrTimeout ==
    /\ [](timers # {} => Visible)
    /\ []((Visible /\ shownFor = AutoHideDuration) => ENABLED Timeout)
    /\ [][/\ (Dismiss \/ Timeout) => (~openSnackbar' /\ timers' = {})
          /\ Timeout => shownFor = AutoHideDuration]_vars

(* dismissed, opened again, and Visible for the full 3000 ms since then *)
C5_FullDurationAfterDismissal ==
    /\ Visible
    /\ lastClose = "dismiss"
    /\ shownFor = AutoHideDuration

(* C6: a step of the mounted card that changes neither callSocketApi nor   *)
(* dispatchesDeleted leaves the number of fetch dispatches unchanged.      *)
C6_NoFetchOnUnrelatedChange ==
    [][(/\ phase = "mounted"
        /\ callSocketApi' = callSocketApi
        /\ dispatchesDeleted' = dispatchesDeleted)
         => fetchCount' = fetchCount]_vars

(* re-renders and a dismissal happened and only the mount fetch was issued *)
C6_RendersWithoutFetch ==
    /\ phase = "mounted"
    /\ renders >= 1
    /\ observedChanges = 0
    /\ fetchCount = 1
    /\ lastClose = "dismiss"

(* C7: a re-render at which isError becomes falsy while the notification   *)
(* is Visible leaves it Visible, and every step of the mounted card from   *)
(* Visible to Hidden is a dismissal or the timeout.                        *)
C7_ClearingErrorKeepsVisible ==
    [][/\ (Visible /\ phase' = "mounted" /\ error' # error /\ ~Truthy(error'))
            => openSnackbar'
       /\ (Visible /\ phase' = "mounted" /\ ~openSnackbar')
            => (Dismiss \/ Timeout)]_vars

(* the error flag was cleared and the notification is still shown *)
C7_VisibleWithClearedError ==
    /\ Visible
    /\ ~Truthy(error)

(* C8: with dashboardOverview undefined or null the card renders without   *)
(* throwing and each of the four metrics shows the skeleton.               *)
C8_AbsentStatsShowSkeletons ==
    (phase # "unmounted" /\ Absent(dashboardOverview))
       => (phase = "mounted" /\ view = <<Skeleton, Skeleton, Skeleton, Skeleton>>)

(* C9, as stated: with the stats object present and total_jobs_running     *)
(* undefined the jobs-running metric shows the skeleton.                   *)
C9_UndefinedCountShowsSkeleton ==
    (phase = "mounted" /\ dashboardOverview.total_jobs_running = Undefined)
       => view[1] = Skeleton

(* C9, amended: with the stats object present and total_jobs_running       *)
(* undefined the jobs-running metric shows 'N/A', not the skeleton and not *)
(* '0'.                                                                    *)
C9_UndefinedCountShowsNA ==
    (phase = "mounted" /\ dashboardOverview.total_jobs_running = Undefined)
       => view[1] = Text("N/A")

(* the card is mounted with stats whose total_jobs_running is undefined *)
C9_UndefinedCountRendered ==
    /\ phase = "mounted"
    /\ dashboardOverview.total_jobs_running = Undefined
    /\ dashboardOverview.total_jobs_completed # Undefined

(* C10: with the stats object present a count metric that is an integer    *)
(* >= 0 shows that number in decimal; 0 shows '0', never 'N/A'.            *)
C10_CountShowsNumber ==
    phase = "mounted" =>
        LET running == dashboardOverview.total_jobs_running
            completed == dashboardOverview.total_jobs_completed
        IN
        /\ running.t = "number" => view[1] = Text(ToString(running.n))
        /\ completed.t = "number" => view[2] = Text(ToString(completed.n))
        /\ running = Num(0) => view[1] = Text("0")
        /\ completed = Num(0) => view[2] = Text("0")

(* the card is mounted with zero running jobs and shows '0' *)
C10_ZeroRendered ==
    /\ phase = "mounted"
    /\ dashboardOverview.total_jobs_running = Num(0)
    /\ view[1] = Text("0")

(* C11: in every reachable state of Circuit the modal's openModal state is *)
(* false: it starts false, and handleClose, the only writer, sets false.   *)
C11_ModalNeverOpens ==
    openModal = FALSE

(* handleClose has run on a Circuit that shows loaded details *)
C11_ClosedAfterHandleClose ==
    /\ closeCalls >= 1
    /\ ~Absent(circuitDetails)
    /\ openModal = FALSE

====
